---- MODULE Spec2Model ----
(***************************************************************************)
(* Quest progression engine of Rpg-TDA-Colas (src/main.py, src/database.py) *)
(*                                                                         *)
(* The state is the content of the SQLite tables declared in               *)
(* src/database.py: personajes (xp, mision_activa_id), misiones,           *)
(* personaje_misiones_pendientes (personaje_id, mision_id, orden) and      *)
(* personaje_misiones_completadas (personaje_id, mision_id).               *)
(* The operations are the FastAPI handlers asignar_mision,                 *)
(* completar_mision, listar_misiones_disponibles and crear_mision of       *)
(* src/main.py.                                                            *)
(***************************************************************************)
EXTENDS Integers, Sequences, FiniteSets, TLC

\* ---------------------------------------------------------------- bounds
\* number of characters registered before the engine is exercised
NumPersonajes == 2
\* number of quests in the catalog
NumMisiones == 3
\* number of concurrent requests (threads of the FastAPI thread pool)
NumProcs == 2
\* number of requests served one at a time in one run
MaxLlamadas == 5
\* number of requests served concurrently in one run
MaxLlamadasConc == 2

\* ---------------------------------------------------------------- data
\* mision_activa_id is a nullable column; ids are AUTOINCREMENT keys >= 1,
\* so 0 stands for NULL (the handlers test it with "not x", true of both)
NULL == 0

\* a value a method returns where None may stand as well: None is the empty
\* tuple, any other value v the tuple of v alone
None == << >>
Valor(v) == <<v>>

\* absent row (fetchone() returning None)
NoRow == [personaje_id |-> 0, mision_id |-> 0, orden |-> 0]

Titulos == <<"Tutorial", "Dragon", "Cueva", "Torre", "Bosque", "Puente">>

\* names of the characters, in the order of their registration
Nombres == <<"Ana", "Beto", "Caro", "Dani", "Eva", "Fito">>

\* reward of the quest created i-th: the reference scenario's 10 and 100,
\* then 30 for every further quest
XpDe(i) == IF i = 1 THEN 10 ELSE IF i = 2 THEN 100 ELSE 30

VARIABLES
    personajes,   \* table personajes: id -> [xp, mision_activa_id]
    misiones,     \* table misiones: sequence of [id, titulo, xp]
    pendientes,   \* table personaje_misiones_pendientes: set of rows
    completadas,  \* table personaje_misiones_completadas: set of rows
    llegada,      \* per character, the queued quests in the order of their INSERT
    orden_dado,   \* per character, the highest orden an INSERT ever wrote
    ret,          \* response of the last request served sequentially
    proc,         \* per concurrent request: position, locals, open transaction
    lock,         \* holder of SQLite's database write lock, 0 when free
    base,         \* committed tables when the current batch of requests began
    nops,         \* requests started since base was taken
    llamadas,     \* requests received so far
    nombres,      \* column nombre of table personajes: id -> nombre
    items,        \* ColaMisiones.items, the deque of one ColaMisiones object
    encolados,    \* the ids passed to enqueue so far, in call order
    sacados       \* the ids returned by dequeue so far, in call order

vars == <<personajes, misiones, pendientes, completadas, llegada, orden_dado, ret,
          proc, lock, base, nops, llamadas, nombres, items, encolados, sacados>>

\* what no handler of the quest engine or of the catalog writes
fuera == <<nombres, items, encolados, sacados>>

tablas == <<personajes, misiones, pendientes, completadas>>

\* the committed content of the database as one value
DB == [personajes |-> personajes, misiones |-> misiones,
       pendientes |-> pendientes, completadas |-> completadas]

\* ---------------------------------------------------------------- queries
MaxDe(S) == IF S = {} THEN 0
            ELSE LET x == CHOOSE y \in S : \A z \in S : y >= z
                 IN x

IdsMisiones(d) == {d.misiones[i].id : i \in 1..Len(d.misiones)}

\* db.query(Mision).get(mid)
GetMision(d, mid) ==
    LET i == CHOOSE j \in 1..Len(d.misiones) : d.misiones[j].id = mid
    IN d.misiones[i]

\* rows of the pending table of one character
FilasPendientes(d, pid) == {r \in d.pendientes : r.personaje_id = pid}

\* the next position taken from SELECT COUNT(*) instead of MAX(orden)
MaxOrdenCuenta(d, pid) == Cardinality(FilasPendientes(d, pid))
\* SELECT MAX(orden) FROM personaje_misiones_pendientes WHERE personaje_id = :pid
\* followed by "or 0": MAX over no rows is NULL
MaxOrden(d, pid) == MaxDe({r.orden : r \in FilasPendientes(d, pid)})

\* the same query written with ORDER BY orden DESC
SiguientesDesc(d, pid) ==
    LET F == FilasPendientes(d, pid)
    IN IF F = {} THEN {NoRow}
       ELSE {r \in F : \A s \in F : r.orden >= s.orden}

\* SELECT mision_id FROM personaje_misiones_pendientes WHERE personaje_id = :pid
\* ORDER BY orden ASC LIMIT 1: the rows fetchone() may return. Rows with equal
\* orden are in no defined order, so each of them may come first.
Siguientes(d, pid) ==
    LET F == FilasPendientes(d, pid)
    IN IF F = {} THEN {NoRow}
       ELSE {r \in F : \A s \in F : r.orden <= s.orden}

\* primary key (personaje_id, mision_id) of the pending table
EnPendientes(d, pid, mid) ==
    \E r \in d.pendientes : r.personaje_id = pid /\ r.mision_id = mid

\* primary key (personaje_id, mision_id) of the completed table
EnCompletadas(d, pid, mid) ==
    [personaje_id |-> pid, mision_id |-> mid] \in d.completadas

\* the pending queue of a character as the relationship
\* Personaje.misiones_pendientes yields it, when no two rows tie on orden
RECURSIVE ColaDe(_)
ColaDe(F) ==
    IF F = {} THEN << >>
    ELSE LET r == CHOOSE x \in F : \A y \in F : x.orden <= y.orden
         IN <<r.mision_id>> \o ColaDe(F \ {r})

Cola(d, pid) == ColaDe(FilasPendientes(d, pid))

PendientesDe(d, pid) == {r.mision_id : r \in FilasPendientes(d, pid)}

CompletadasDe(d, pid) ==
    {r.mision_id : r \in {x \in d.completadas : x.personaje_id = pid}}

\* ---------------------------------------------------------------- responses
SinRespuesta ==
    [op |-> "none", pid |-> 0, mid |-> 0, status |-> 0, detail |-> "",
     mision_activa |-> FALSE, en_cola |-> FALSE, xp_ganada |-> 0, xp_total |-> 0,
     titulo |-> "", xp |-> 0, lista |-> << >>, nombre |-> "", valor |-> None,
     misiones_pendientes |-> << >>, misiones_completadas |-> << >>]

\* HTTPException(status_code, detail)
Error(op, pid, mid, status, detail) ==
    [SinRespuesta EXCEPT !.op = op, !.pid = pid, !.mid = mid,
                         !.status = status, !.detail = detail]

\* the dict returned by asignar_mision
RespAsignar(pid, mid, activa) ==
    [SinRespuesta EXCEPT !.op = "asignar", !.pid = pid, !.mid = mid,
                         !.status = 200,
                         !.detail = "Mision asignada correctamente",
                         !.mision_activa = (activa = mid),
                         !.en_cola = (activa # mid)]

\* the dict of completar_mision with the reward in the place of the total
RespCompletarSinTotal(pid, xp_ganada, xp_total) ==
    [SinRespuesta EXCEPT !.op = "completar", !.pid = pid,
                         !.status = 200,
                         !.detail = "Mision completada exitosamente",
                         !.xp_ganada = xp_ganada, !.xp_total = xp_ganada]
\* the dict returned by completar_mision
RespCompletar(pid, xp_ganada, xp_total) ==
    [SinRespuesta EXCEPT !.op = "completar", !.pid = pid,
                         !.status = 200,
                         !.detail = "Mision completada exitosamente",
                         !.xp_ganada = xp_ganada, !.xp_total = xp_total]

\* the dict returned by crear_mision
RespCrear(id, titulo, xp) ==
    [SinRespuesta EXCEPT !.op = "crear", !.mid = id, !.status = 200,
                         !.detail = "Mision creada exitosamente",
                         !.titulo = titulo, !.xp = xp]

\* HTTPException(status, detail) raised by crear_mision(titulo, xp)
ErrorCrear(titulo, xp, status, detail) ==
    [Error("crear", 0, 0, status, detail) EXCEPT !.titulo = titulo, !.xp = xp]

\* the list returned by listar_misiones_disponibles
RespLista(pid, lista) ==
    [SinRespuesta EXCEPT !.op = "disponibles", !.pid = pid, !.status = 200,
                         !.lista = lista]

\* the dict returned by listar_misiones_personaje: valor holds mision_activa
\* (a quest or None), lista holds misiones_disponibles
RespMisiones(pid, activa, pend, comp, disp) ==
    [SinRespuesta EXCEPT !.op = "misiones", !.pid = pid, !.status = 200,
                         !.valor = activa,
                         !.misiones_pendientes = pend,
                         !.misiones_completadas = comp,
                         !.lista = disp]

\* the dict returned by crear_personaje
RespPersonaje(id, nombre, xp) ==
    [SinRespuesta EXCEPT !.op = "registrar", !.pid = id, !.status = 200,
                         !.nombre = nombre, !.xp = xp]

\* HTTPException(status, detail) raised by crear_personaje
ErrorPersonaje(nombre, status, detail) ==
    [Error("registrar", 0, 0, status, detail) EXCEPT !.nombre = nombre]

\* ---------------------------------------------------------------- handlers
\* crear_personaje as one transaction over the table personajes (P its xp and
\* mision_activa_id columns, N its nombre column): a missing or empty name
\* and a name already taken are refused with 400; otherwise a row with xp = 0
\* and no active quest is inserted under the next id
CrearPersonaje(P, N, nombre) ==
    IF nombre = ""
    THEN [personajes |-> P, nombres |-> N,
          ret |-> ErrorPersonaje(nombre, 400, "El nombre es requerido")]
    ELSE IF \E i \in DOMAIN N : N[i] = nombre
    THEN [personajes |-> P, nombres |-> N,
          ret |-> ErrorPersonaje(nombre, 400, "Ya existe un personaje con este nombre")]
    ELSE [personajes |-> Append(P, [xp |-> 0, mision_activa_id |-> NULL]),
          nombres |-> Append(N, nombre),
          ret |-> RespPersonaje(Len(P) + 1, nombre, 0)]

\* db.query(Mision).filter(Mision.titulo == titulo).first() is not None
ExisteTitulo(d, titulo) ==
    \E i \in 1..Len(d.misiones) : d.misiones[i].titulo = titulo

\* the row INSERT INTO misiones (titulo, xp) adds: the INTEGER PRIMARY KEY of
\* a table no row is ever deleted from is the highest id plus one
NuevaMision(d, titulo, xp) ==
    [id |-> MaxDe(IdsMisiones(d)) + 1, titulo |-> titulo, xp |-> xp]

\* crear_mision that updates the reward of the quest that has the title
CrearMisionReemplaza(d, titulo, xp) ==
    IF ExisteTitulo(d, titulo)
    THEN LET i == CHOOSE j \in 1..Len(d.misiones) : d.misiones[j].titulo = titulo
         IN [db |-> [d EXCEPT !.misiones[i].xp = xp],
             ret |-> RespCrear(d.misiones[i].id, titulo, xp)]
    ELSE [db |-> [d EXCEPT !.misiones = Append(@, NuevaMision(d, titulo, xp))],
          ret |-> RespCrear(NuevaMision(d, titulo, xp).id, titulo, xp)]

\* crear_mision as one transaction: the tables after the call and its
\* response. The HTTPException of the duplicate title is caught by
\* "except Exception", rolled back and re-raised with status 400. Serially
\* the UNIQUE constraint on misiones.titulo cannot fire after the query
\* found no such title.
CrearMision(d, titulo, xp) ==
    IF ExisteTitulo(d, titulo)
    THEN [db |-> d,
          ret |-> ErrorCrear(titulo, xp, 400, "Ya existe una mision con este titulo")]
    ELSE [db |-> [d EXCEPT !.misiones = Append(@, NuevaMision(d, titulo, xp))],
          ret |-> RespCrear(NuevaMision(d, titulo, xp).id, titulo, xp)]

\* asignar_mision without the queue branch: the quest replaces the active one
AsignarMisionSinCola(d, pid, mid) ==
    IF pid \notin DOMAIN d.personajes
    THEN [db |-> d, ret |-> Error("asignar", pid, mid, 400, "Personaje no encontrado")]
    ELSE IF mid \notin IdsMisiones(d)
    THEN [db |-> d, ret |-> Error("asignar", pid, mid, 400, "Mision no encontrada")]
    ELSE [db |-> [d EXCEPT !.personajes[pid].mision_activa_id = mid],
          ret |-> RespAsignar(pid, mid, mid)]
\* asignar_mision as one transaction: the tables after the call and its
\* response. Every exception raised in the try block, the 404s included, is
\* caught by "except Exception", rolled back and re-raised with status 400.
AsignarMision(d, pid, mid) ==
    IF pid \notin DOMAIN d.personajes
    THEN [db |-> d, ret |-> Error("asignar", pid, mid, 400, "Personaje no encontrado")]
    ELSE IF mid \notin IdsMisiones(d)
    THEN [db |-> d, ret |-> Error("asignar", pid, mid, 400, "Mision no encontrada")]
    ELSE IF d.personajes[pid].mision_activa_id = NULL
    THEN [db |-> [d EXCEPT !.personajes[pid].mision_activa_id = mid],
          ret |-> RespAsignar(pid, mid, mid)]
    ELSE IF EnPendientes(d, pid, mid)
    THEN [db |-> d, ret |-> Error("asignar", pid, mid, 400, "IntegrityError")]
    ELSE [db |-> [d EXCEPT !.pendientes = @ \cup
                     {[personaje_id |-> pid, mision_id |-> mid,
                       orden |-> MaxOrden(d, pid) + 1]}],
          ret |-> RespAsignar(pid, mid, d.personajes[pid].mision_activa_id)]

\* completar_mision without its guard on mision_activa_id: the lookup of the
\* quest with a NULL id is what fails
CompletarMisionSinGuarda(d, pid, sig) ==
    IF pid \notin DOMAIN d.personajes
    THEN [db |-> d, ret |-> Error("completar", pid, 0, 500, "Personaje no encontrado")]
    ELSE IF d.personajes[pid].mision_activa_id \notin IdsMisiones(d)
    THEN [db |-> d, ret |-> Error("completar", pid, 0, 500, "Mision activa no encontrada")]
    ELSE LET activa == d.personajes[pid].mision_activa_id
             xp_ganada == GetMision(d, activa).xp
             xp_total == d.personajes[pid].xp + xp_ganada
         IN IF EnCompletadas(d, pid, activa)
            THEN [db |-> d, ret |-> Error("completar", pid, 0, 500, "IntegrityError")]
            ELSE [db |-> [d EXCEPT
                      !.personajes[pid] =
                          [xp |-> xp_total,
                           mision_activa_id |->
                               IF sig # NoRow THEN sig.mision_id ELSE NULL],
                      !.completadas = @ \cup
                          {[personaje_id |-> pid, mision_id |-> activa]},
                      !.pendientes =
                          IF sig # NoRow
                          THEN {r \in @ : ~(r.personaje_id = pid /\
                                            r.mision_id = sig.mision_id)}
                          ELSE @],
                  ret |-> RespCompletar(pid, xp_ganada, xp_total)]
\* completar_mision as one transaction, sig being the row its SELECT ... LIMIT 1
\* fetched. Every exception raised in the try block is caught by
\* "except Exception", rolled back and re-raised with status 500.
CompletarMision(d, pid, sig) ==
    IF pid \notin DOMAIN d.personajes
    THEN [db |-> d, ret |-> Error("completar", pid, 0, 500, "Personaje no encontrado")]
    ELSE IF d.personajes[pid].mision_activa_id = NULL
    THEN [db |-> d, ret |-> Error("completar", pid, 0, 500, "El personaje no tiene mision activa")]
    ELSE IF d.personajes[pid].mision_activa_id \notin IdsMisiones(d)
    THEN [db |-> d, ret |-> Error("completar", pid, 0, 500, "Mision activa no encontrada")]
    ELSE LET activa == d.personajes[pid].mision_activa_id
             xp_ganada == GetMision(d, activa).xp
             xp_total == d.personajes[pid].xp + xp_ganada
         IN IF EnCompletadas(d, pid, activa)
            THEN [db |-> d, ret |-> Error("completar", pid, 0, 500, "IntegrityError")]
            ELSE [db |-> [d EXCEPT
                      !.personajes[pid] =
                          [xp |-> xp_total,
                           mision_activa_id |->
                               IF sig # NoRow THEN sig.mision_id ELSE NULL],
                      !.completadas = @ \cup
                          {[personaje_id |-> pid, mision_id |-> activa]},
                      !.pendientes =
                          IF sig # NoRow
                          THEN {r \in @ : ~(r.personaje_id = pid /\
                                            r.mision_id = sig.mision_id)}
                          ELSE @],
                  ret |-> RespCompletar(pid, xp_ganada, xp_total)]

\* listar_misiones_disponibles with no filter on the active quest
ListarMisionesDisponiblesConActiva(d, pid) ==
    IF pid \notin DOMAIN d.personajes
    THEN [db |-> d, ret |-> Error("disponibles", pid, 0, 500, "Personaje no encontrado")]
    ELSE LET SinTomar(m) == /\ m.id \notin PendientesDe(d, pid)
                          /\ m.id \notin CompletadasDe(d, pid)
         IN [db |-> d, ret |-> RespLista(pid, SelectSeq(d.misiones, SinTomar))]

\* listar_misiones_disponibles: the quests of the catalog, in the order of
\* the table, that are neither queued for nor completed by the character nor
\* its active quest; it writes nothing. The 404 of the unknown character is
\* caught by "except Exception" and re-raised with status 500.
ListarMisionesDisponibles(d, pid) ==
    IF pid \notin DOMAIN d.personajes
    THEN [db |-> d, ret |-> Error("disponibles", pid, 0, 500, "Personaje no encontrado")]
    ELSE LET activa == d.personajes[pid].mision_activa_id
             Disponible(m) == /\ m.id \notin PendientesDe(d, pid)
                              /\ m.id \notin CompletadasDe(d, pid)
                              /\ IF activa # NULL THEN m.id # activa ELSE TRUE
         IN [db |-> d, ret |-> RespLista(pid, SelectSeq(d.misiones, Disponible))]

\* the orders in which a SELECT without ORDER BY may return the quests of S
Ordenes(d, S) ==
    {s \in [1..Cardinality(S) -> {GetMision(d, m) : m \in S}] :
        {s[i].id : i \in DOMAIN s} = S}

\* listar_misiones_personaje, completas being the rows the relationship
\* misiones_completadas loaded: the 404 of the unknown character is passed on
\* by "except HTTPException: raise"; the active quest is resolved in the
\* catalog; the queued quests come in the order of the column orden
\* (database.py 66-71); the available quests are those of the catalog that
\* are neither queued, nor completed, nor equal to (mision_activa_id or 0).
\* It writes nothing.
ListarMisionesPersonaje(d, pid, completas) ==
    IF pid \notin DOMAIN d.personajes
    THEN [db |-> d, ret |-> Error("misiones", pid, 0, 404, "Personaje no encontrado")]
    ELSE LET activa == d.personajes[pid].mision_activa_id
             cola == Cola(d, pid)
             Disponible(m) == /\ m.id \notin PendientesDe(d, pid)
                              /\ m.id \notin CompletadasDe(d, pid)
                              /\ m.id # activa
         IN IF activa # NULL /\ activa \notin IdsMisiones(d)
            THEN [db |-> d, ret |-> Error("misiones", pid, 0, 500, "Mision activa no encontrada")]
            ELSE [db |-> d,
                  ret |-> RespMisiones(pid,
                      IF activa # NULL THEN Valor(GetMision(d, activa)) ELSE None,
                      [i \in DOMAIN cola |-> GetMision(d, cola[i])],
                      completas,
                      SelectSeq(d.misiones, Disponible))]

\* ---------------------------------------------------------------- arrival order
RECURSIVE Quitar(_, _)
Quitar(s, x) ==
    IF s = << >> THEN << >>
    ELSE IF Head(s) = x THEN Tail(s)
    ELSE <<Head(s)>> \o Quitar(Tail(s), x)

\* the arrival record after the tables went from d to e: rows inserted are
\* appended, rows deleted are taken out
LlegadaTras(l, d, e) ==
    [pid \in DOMAIN l |->
        LET nuevas == PendientesDe(e, pid) \ PendientesDe(d, pid)
            idas == PendientesDe(d, pid) \ PendientesDe(e, pid)
            sin == IF idas = {} THEN l[pid]
                   ELSE Quitar(l[pid], CHOOSE x \in idas : TRUE)
        IN IF nuevas = {} THEN sin
           ELSE Append(sin, CHOOSE x \in nuevas : TRUE)]

\* the highest sequence number ever written per character after the tables
\* went from d to e
OrdenDadoTras(m, d, e) ==
    [pid \in DOMAIN m |->
        MaxDe({m[pid]} \cup
              {r.orden : r \in FilasPendientes(e, pid) \ FilasPendientes(d, pid)})]

\* ---------------------------------------------------------------- initial state
\* The catalog holds NumMisiones quests created by crear_mision and
\* NumPersonajes characters were registered by crear_personaje (xp=0, no
\* active quest); both association tables are empty.
ProcIdle ==
    [pc |-> "idle", op |-> "none", pid |-> 0, mid |-> 0,
     activa |-> 0, xp |-> 0, xp_ganada |-> 0, max_orden |-> 0, sig |-> NoRow,
     titulo |-> "",
     ins_c |-> {}, ins_p |-> {}, del_p |-> {}, res |-> SinRespuesta]

\* the tables after NumMisiones calls of crear_mision and NumPersonajes calls
\* of crear_personaje
DB0 ==
    [personajes |-> [pid \in 1..NumPersonajes |-> [xp |-> 0, mision_activa_id |-> NULL]],
     misiones |-> [i \in 1..NumMisiones |-> [id |-> i, titulo |-> Titulos[i], xp |-> XpDe(i)]],
     pendientes |-> {},
     completadas |-> {}]

\* everything but the quest tables and the arrival record, before any request
SinPeticiones ==
    /\ ret = SinRespuesta
    /\ proc = [p \in 1..NumProcs |-> ProcIdle]
    /\ lock = 0
    /\ base = DB0
    /\ nops = 0
    /\ llamadas = 0
    /\ nombres = [pid \in 1..NumPersonajes |-> Nombres[pid]]
    /\ items = << >>
    /\ encolados = << >>
    /\ sacados = << >>

Init ==
    /\ personajes = DB0.personajes
    /\ misiones = DB0.misiones
    /\ pendientes = DB0.pendientes
    /\ completadas = DB0.completadas
    /\ llegada = [pid \in 1..NumPersonajes |-> << >>]
    /\ orden_dado = [pid \in 1..NumPersonajes |-> 0]
    /\ SinPeticiones

\* ids a caller may send: the existing ones and one unknown
PidsEntrada == 1..(NumPersonajes + 1)
MidsEntrada == 1..(NumMisiones + 1)

\* ---------------------------------------------------------------- sequential requests
Aplicar(r) ==
    /\ llamadas' = llamadas + 1
    /\ personajes' = r.db.personajes
    /\ misiones' = r.db.misiones
    /\ pendientes' = r.db.pendientes
    /\ completadas' = r.db.completadas
    /\ llegada' = LlegadaTras(llegada, DB, r.db)
    /\ orden_dado' = OrdenDadoTras(orden_dado, DB, r.db)
    /\ ret' = r.ret
    /\ UNCHANGED <<fuera, proc, lock, base, nops>>

\* POST /personajes/{personaje_id}/misiones/{mision_id}
Asignar(pid, mid) ==
    /\ llamadas < MaxLlamadas
    /\ Aplicar(AsignarMision(DB, pid, mid))

\* POST /personajes/{personaje_id}/completar
Completar(pid) ==
    /\ llamadas < MaxLlamadas
    /\ \E sig \in Siguientes(DB, pid) : Aplicar(CompletarMision(DB, pid, sig))

\* GET /personajes/{personaje_id}/misiones/disponibles
Listar(pid) ==
    /\ llamadas < MaxLlamadas
    /\ Aplicar(ListarMisionesDisponibles(DB, pid))

NextSeq ==
    \/ \E pid \in PidsEntrada, mid \in MidsEntrada : Asignar(pid, mid)
    \/ \E pid \in PidsEntrada : Completar(pid)
    \/ \E pid \in PidsEntrada : Listar(pid)

\* requests served one at a time
SpecSeq == Init /\ [][NextSeq]_vars

\* ---------------------------------------------------------------- listings
\* GET /personajes/{personaje_id}/misiones
ListarPersonaje(pid) ==
    /\ llamadas < MaxLlamadas
    /\ \E completas \in Ordenes(DB, IF pid \in DOMAIN personajes
                                     THEN CompletadasDe(DB, pid) ELSE {}) :
           Aplicar(ListarMisionesPersonaje(DB, pid, completas))

NextVista ==
    \/ \E pid \in PidsEntrada, mid \in MidsEntrada : Asignar(pid, mid)
    \/ \E pid \in PidsEntrada : Completar(pid)
    \/ \E pid \in PidsEntrada : ListarPersonaje(pid)

\* requests served one at a time, the listing of a character among them
SpecVista == Init /\ [][NextVista]_vars

\* ---------------------------------------------------------------- catalog
\* the catalog before any quest was created
InitCat ==
    /\ personajes = DB0.personajes
    /\ misiones = << >>
    /\ pendientes = {}
    /\ completadas = {}
    /\ llegada = [pid \in 1..NumPersonajes |-> << >>]
    /\ orden_dado = [pid \in 1..NumPersonajes |-> 0]
    /\ SinPeticiones

\* titles and rewards a caller may send; the Query validators of crear_mision
\* let through titles of 3 characters or more and rewards above 0
TitulosEntrada == {Titulos[i] : i \in 1..NumMisiones}
XpsEntrada == {XpDe(i) : i \in 1..NumMisiones}

\* POST /misiones
Crear(titulo, xp) ==
    /\ llamadas < MaxLlamadas
    /\ Aplicar(CrearMision(DB, titulo, xp))

\* names a caller may send: the empty one, those taken and one that is free
NombresEntrada == {""} \cup {Nombres[i] : i \in 1..(NumPersonajes + 1)}

\* POST /personajes
Registrar(nombre) ==
    /\ llamadas < MaxLlamadas
    /\ llamadas' = llamadas + 1
    /\ LET r == CrearPersonaje(personajes, nombres, nombre)
       IN /\ personajes' = r.personajes
          /\ nombres' = r.nombres
          /\ ret' = r.ret
    /\ UNCHANGED <<misiones, pendientes, completadas, llegada, orden_dado,
                   proc, lock, base, nops, items, encolados, sacados>>

NextCat ==
    \/ \E titulo \in TitulosEntrada, xp \in XpsEntrada : Crear(titulo, xp)
    \/ \E nombre \in NombresEntrada : Registrar(nombre)

\* quests created and characters registered one at a time
SpecCat == InitCat /\ [][NextCat]_vars

\* ---------------------------------------------------------------- ColaMisiones
\* src/tda_cola.py, methods of ColaMisiones over self.items (a deque, its
\* left end first): each yields the deque after the call and the value returned
is_empty(its) == Len(its) = 0

size(its) == Len(its)

enqueue(its, mission_id) == [items |-> Append(its, mission_id), valor |-> None]

\* dequeue written with pop(), which takes from the right end
dequeuePop(its) ==
    IF ~is_empty(its)
    THEN [items |-> SubSeq(its, 1, Len(its) - 1), valor |-> Valor(its[Len(its)])]
    ELSE [items |-> its, valor |-> None]

dequeue(its) ==
    IF ~is_empty(its)
    THEN [items |-> Tail(its), valor |-> Valor(Head(its))]
    ELSE [items |-> its, valor |-> None]

first(its) == IF ~is_empty(its) THEN Valor(its[1]) ELSE None

\* a value returned by a method of ColaMisiones
RespCola(op, valor) == [SinRespuesta EXCEPT !.op = op, !.valor = valor]

\* ids a caller may enqueue
IdsEntrada == 0..NumMisiones

\* a call of a method: the deque it leaves, the value it returns and the
\* record of the ids enqueued and dequeued
LlamarCola(op, its, valor, enc, sac) ==
    /\ llamadas < MaxLlamadas
    /\ llamadas' = llamadas + 1
    /\ items' = its
    /\ ret' = RespCola(op, valor)
    /\ encolados' = enc
    /\ sacados' = sac
    /\ UNCHANGED <<tablas, llegada, orden_dado, proc, lock, base, nops, nombres>>

Enqueue(mission_id) ==
    LlamarCola("enqueue", enqueue(items, mission_id).items, None,
               Append(encolados, mission_id), sacados)

Dequeue ==
    LlamarCola("dequeue", dequeue(items).items, dequeue(items).valor, encolados,
               IF dequeue(items).valor # None
               THEN Append(sacados, dequeue(items).valor[1]) ELSE sacados)

First == LlamarCola("first", items, first(items), encolados, sacados)

IsEmpty == LlamarCola("is_empty", items, Valor(is_empty(items)), encolados, sacados)

Size == LlamarCola("size", items, Valor(size(items)), encolados, sacados)

NextCola ==
    \/ \E mission_id \in IdsEntrada : Enqueue(mission_id)
    \/ Dequeue
    \/ First
    \/ IsEmpty
    \/ Size

\* one ColaMisiones object, empty after __init__, and its callers
SpecCola == Init /\ [][NextCola]_vars

\* ---------------------------------------------------------------- concurrent requests
\* Each request runs in its own thread with its own Session (get_db), hence its
\* own SQLite connection. A SELECT reads the committed tables at the moment it
\* runs; the first INSERT/UPDATE/DELETE of a session begins a transaction that
\* holds the database write lock until commit or rollback, and its writes are
\* visible to the other connections only once committed. A writer that finds
\* the lock taken waits for it.

\* a thread of the pool is free when it serves no request
Libre(p) == proc[p].pc \in {"idle", "done"}

\* a request arrives and is handed to thread p, the first free thread of the
\* pool; base and nops keep the tables found by, and the number of, the
\* requests that overlap
Recibir(p) ==
    /\ Libre(p)
    /\ \A q \in DOMAIN proc : Libre(q) => p <= q
    /\ llamadas < MaxLlamadasConc
    /\ llamadas' = llamadas + 1
    /\ IF \A q \in DOMAIN proc : Libre(q)
       THEN base' = DB /\ nops' = 1
       ELSE base' = base /\ nops' = nops + 1

\* the thread records once a request is handed over: the responses of a batch
\* of overlapping requests are gone when the next batch begins
Hilos == IF \A q \in DOMAIN proc : Libre(q)
         THEN [q \in DOMAIN proc |-> ProcIdle]
         ELSE proc

\* the handler raises HTTPException(status, detail)
Fallar(p, op, pid, mid, status, detail) ==
    proc' = [proc EXCEPT ![p] = [ProcIdle EXCEPT
                !.pc = "done", !.op = op, !.pid = pid, !.mid = mid,
                !.activa = proc[p].activa,
                !.res = Error(op, pid, mid, status, detail)]]

\* the handler of a request just received raises HTTPException(status, detail)
Rechazar(p, op, pid, mid, status, detail) ==
    proc' = [Hilos EXCEPT ![p] = [ProcIdle EXCEPT
                !.pc = "done", !.op = op, !.pid = pid, !.mid = mid,
                !.res = Error(op, pid, mid, status, detail)]]

\* asignar_mision, lines 426-436: load the character and the quest, then
\* either set the attribute mision_activa_id in the session or go on to queue
AsignarGet(p, pid, mid) ==
    /\ Recibir(p)
    /\ IF pid \notin DOMAIN personajes
       THEN Rechazar(p, "asignar", pid, mid, 400, "Personaje no encontrado")
       ELSE IF mid \notin IdsMisiones(DB)
       THEN Rechazar(p, "asignar", pid, mid, 400, "Mision no encontrada")
       ELSE proc' = [Hilos EXCEPT ![p] = [ProcIdle EXCEPT
                !.op = "asignar", !.pid = pid, !.mid = mid,
                !.activa = personajes[pid].mision_activa_id,
                !.xp = personajes[pid].xp,
                !.pc = IF personajes[pid].mision_activa_id = NULL
                       THEN "a_update" ELSE "a_max"]]
    /\ UNCHANGED <<fuera, tablas, llegada, orden_dado, ret, lock>>

\* asignar_mision, lines 439-443: SELECT MAX(orden)
AsignarMax(p) ==
    /\ proc[p].pc = "a_max"
    /\ proc' = [proc EXCEPT ![p].max_orden = MaxOrden(DB, proc[p].pid),
                            ![p].pc = "a_insert"]
    /\ UNCHANGED <<fuera, tablas, llegada, orden_dado, ret, lock, base, nops, llamadas>>

\* the INSERT into a pending table declared without its primary key
AsignarInsertSinClave(p) ==
    /\ proc[p].pc = "a_insert"
    /\ lock = 0
    /\ proc' = [proc EXCEPT
           ![p].ins_p = {[personaje_id |-> proc[p].pid,
                          mision_id |-> proc[p].mid,
                          orden |-> proc[p].max_orden + 1]},
           ![p].pc = "a_commit"]
    /\ lock' = p
    /\ UNCHANGED <<fuera, tablas, llegada, orden_dado, ret, base, nops, llamadas>>
\* asignar_mision, lines 445-450: INSERT into the pending table; a second row
\* with the same primary key raises IntegrityError, answered with 400
AsignarInsert(p) ==
    /\ proc[p].pc = "a_insert"
    /\ lock = 0
    /\ IF EnPendientes(DB, proc[p].pid, proc[p].mid)
       THEN /\ Fallar(p, "asignar", proc[p].pid, proc[p].mid, 400, "IntegrityError")
            /\ lock' = lock
       ELSE /\ proc' = [proc EXCEPT
                   ![p].ins_p = {[personaje_id |-> proc[p].pid,
                                  mision_id |-> proc[p].mid,
                                  orden |-> proc[p].max_orden + 1]},
                   ![p].pc = "a_commit"]
            /\ lock' = p
    /\ UNCHANGED <<fuera, tablas, llegada, orden_dado, ret, base, nops, llamadas>>

\* asignar_mision, line 452, queue branch: commit of the INSERT
AsignarCommit(p) ==
    /\ proc[p].pc = "a_commit"
    /\ lock = p
    /\ pendientes' = pendientes \cup proc[p].ins_p
    /\ llegada' = LlegadaTras(llegada, DB, [DB EXCEPT !.pendientes = pendientes'])
    /\ orden_dado' = OrdenDadoTras(orden_dado, DB, [DB EXCEPT !.pendientes = pendientes'])
    /\ lock' = 0
    /\ proc' = [proc EXCEPT ![p].pc = "a_ret"]
    /\ UNCHANGED <<fuera, personajes, misiones, completadas, ret, base, nops, llamadas>>

\* the UPDATE of mision_activa_id issued without its WHERE id = :pid
AsignarUpdateSinWhere(p) ==
    /\ proc[p].pc = "a_update"
    /\ lock = 0
    /\ personajes' = [c \in DOMAIN personajes |->
           [personajes[c] EXCEPT !.mision_activa_id = proc[p].mid]]
    /\ proc' = [proc EXCEPT ![p].pc = "a_ret"]
    /\ UNCHANGED <<fuera, misiones, pendientes, completadas, llegada, orden_dado, ret, lock,
                   base, nops, llamadas>>

\* asignar_mision, line 452, direct branch: commit flushes
\* UPDATE personajes SET mision_activa_id = :mid WHERE id = :pid
AsignarUpdate(p) ==
    /\ proc[p].pc = "a_update"
    /\ lock = 0
    /\ personajes' = [personajes EXCEPT ![proc[p].pid].mision_activa_id = proc[p].mid]
    /\ proc' = [proc EXCEPT ![p].pc = "a_ret"]
    /\ UNCHANGED <<fuera, misiones, pendientes, completadas, llegada, orden_dado, ret, lock,
                   base, nops, llamadas>>

\* asignar_mision, lines 453-457: the commit expired the loaded character, so
\* personaje.mision_activa_id is read again to build the response
AsignarRet(p) ==
    /\ proc[p].pc = "a_ret"
    /\ proc' = [proc EXCEPT
           ![p].res = RespAsignar(proc[p].pid, proc[p].mid,
                                  personajes[proc[p].pid].mision_activa_id),
           ![p].pc = "done"]
    /\ UNCHANGED <<fuera, tablas, llegada, orden_dado, ret, lock, base, nops, llamadas>>

\* completar_mision, lines 501-510: load the character and its active quest
CompletarGet(p, pid) ==
    /\ Recibir(p)
    /\ IF pid \notin DOMAIN personajes
       THEN Rechazar(p, "completar", pid, 0, 500, "Personaje no encontrado")
       ELSE IF personajes[pid].mision_activa_id = NULL
       THEN Rechazar(p, "completar", pid, 0, 500, "El personaje no tiene mision activa")
       ELSE IF personajes[pid].mision_activa_id \notin IdsMisiones(DB)
       THEN Rechazar(p, "completar", pid, 0, 500, "Mision activa no encontrada")
       ELSE proc' = [Hilos EXCEPT ![p] = [ProcIdle EXCEPT
                !.op = "completar", !.pid = pid,
                !.activa = personajes[pid].mision_activa_id,
                !.xp = personajes[pid].xp,
                !.xp_ganada = GetMision(DB, personajes[pid].mision_activa_id).xp,
                !.pc = "c_sig"]]
    /\ UNCHANGED <<fuera, tablas, llegada, orden_dado, ret, lock>>

\* completar_mision, lines 513-517: SELECT the head of the queue
CompletarSig(p) ==
    /\ proc[p].pc = "c_sig"
    /\ \E sig \in Siguientes(DB, proc[p].pid) :
           proc' = [proc EXCEPT ![p].sig = sig, ![p].pc = "c_insert"]
    /\ UNCHANGED <<fuera, tablas, llegada, orden_dado, ret, lock, base, nops, llamadas>>

\* the INSERT of completar_mision on a connection in autocommit mode: the row is
\* visible to the other connections at once
CompletarInsertAuto(p) ==
    /\ proc[p].pc = "c_insert"
    /\ lock = 0
    /\ IF EnCompletadas(DB, proc[p].pid, proc[p].activa)
       THEN /\ Fallar(p, "completar", proc[p].pid, 0, 500, "IntegrityError")
            /\ lock' = lock
            /\ completadas' = completadas
       ELSE /\ proc' = [proc EXCEPT
                   ![p].ins_c = {[personaje_id |-> proc[p].pid,
                                  mision_id |-> proc[p].activa]},
                   ![p].pc = IF proc[p].sig # NoRow THEN "c_delete" ELSE "c_commit"]
            /\ lock' = p
            /\ completadas' = completadas \cup
                   {[personaje_id |-> proc[p].pid, mision_id |-> proc[p].activa]}
    /\ UNCHANGED <<fuera, personajes, misiones, pendientes, llegada, orden_dado, ret, base, nops, llamadas>>

\* the INSERT of completar_mision into a completed table without primary key:
\* a second row for the same character and quest is accepted
CompletarInsertSinClave(p) ==
    /\ proc[p].pc = "c_insert"
    /\ lock = 0
    /\ proc' = [proc EXCEPT
           ![p].ins_c = {[personaje_id |-> proc[p].pid,
                          mision_id |-> proc[p].activa]},
           ![p].pc = IF proc[p].sig # NoRow THEN "c_delete" ELSE "c_commit"]
    /\ lock' = p
    /\ UNCHANGED <<fuera, tablas, llegada, orden_dado, ret, base, nops, llamadas>>
\* completar_mision, lines 520-528: personaje.xp += xp_ganada in the session,
\* then INSERT into the completed table; a second row with the same primary
\* key raises IntegrityError, answered with 500
CompletarInsert(p) ==
    /\ proc[p].pc = "c_insert"
    /\ lock = 0
    /\ IF EnCompletadas(DB, proc[p].pid, proc[p].activa)
       THEN /\ Fallar(p, "completar", proc[p].pid, 0, 500, "IntegrityError")
            /\ lock' = lock
       ELSE /\ proc' = [proc EXCEPT
                   ![p].ins_c = {[personaje_id |-> proc[p].pid,
                                  mision_id |-> proc[p].activa]},
                   ![p].pc = IF proc[p].sig # NoRow THEN "c_delete" ELSE "c_commit"]
            /\ lock' = p
    /\ UNCHANGED <<fuera, tablas, llegada, orden_dado, ret, base, nops, llamadas>>

\* completar_mision, lines 531-537: DELETE the promoted row from the queue
CompletarDelete(p) ==
    /\ proc[p].pc = "c_delete"
    /\ lock = p
    /\ proc' = [proc EXCEPT
           ![p].del_p = {r \in pendientes : r.personaje_id = proc[p].pid /\
                                            r.mision_id = proc[p].sig.mision_id},
           ![p].pc = "c_commit"]
    /\ UNCHANGED <<fuera, tablas, llegada, orden_dado, ret, lock, base, nops, llamadas>>

\* completar_mision, line 541: commit flushes
\* UPDATE personajes SET xp = :xp, mision_activa_id = :next WHERE id = :pid
\* and makes the INSERT and the DELETE visible, all at once
CompletarCommit(p) ==
    /\ proc[p].pc = "c_commit"
    /\ lock = p
    /\ personajes' = [personajes EXCEPT ![proc[p].pid] =
           [xp |-> proc[p].xp + proc[p].xp_ganada,
            mision_activa_id |-> IF proc[p].sig # NoRow
                                 THEN proc[p].sig.mision_id ELSE NULL]]
    /\ completadas' = completadas \cup proc[p].ins_c
    /\ pendientes' = pendientes \ proc[p].del_p
    /\ llegada' = LlegadaTras(llegada, DB, [DB EXCEPT !.pendientes = pendientes'])
    /\ orden_dado' = OrdenDadoTras(orden_dado, DB, [DB EXCEPT !.pendientes = pendientes'])
    /\ lock' = 0
    /\ proc' = [proc EXCEPT ![p].pc = "c_ret"]
    /\ UNCHANGED <<fuera, misiones, ret, base, nops, llamadas>>

\* completar_mision, lines 543-547: the commit expired the loaded character,
\* so personaje.xp is read again to build the response
CompletarRet(p) ==
    /\ proc[p].pc = "c_ret"
    /\ proc' = [proc EXCEPT
           ![p].res = RespCompletar(proc[p].pid, proc[p].xp_ganada,
                                    personajes[proc[p].pid].xp),
           ![p].pc = "done"]
    /\ UNCHANGED <<fuera, tablas, llegada, orden_dado, ret, lock, base, nops, llamadas>>

NextConc ==
    \E p \in 1..NumProcs :
        \/ \E pid \in PidsEntrada, mid \in MidsEntrada : AsignarGet(p, pid, mid)
        \/ AsignarMax(p)
        \/ AsignarInsert(p)
        \/ AsignarCommit(p)
        \/ AsignarUpdate(p)
        \/ AsignarRet(p)
        \/ \E pid \in PidsEntrada : CompletarGet(p, pid)
        \/ CompletarSig(p)
        \/ CompletarInsert(p)
        \/ CompletarDelete(p)
        \/ CompletarCommit(p)
        \/ CompletarRet(p)

\* The concurrent runs start once character 1 has been given work by requests
\* served one at a time: nothing yet, or asignar(1, 1), or asignar(1, 1) and
\* then asignar(1, 2), which leaves quest 1 active and quest 2 queued.
Preparadas ==
    LET d1 == AsignarMision(DB0, 1, 1).db
        d2 == AsignarMision(d1, 1, 2).db
    IN {DB0, d1, d2}

InitConc ==
    /\ \E d \in Preparadas :
           /\ personajes = d.personajes
           /\ misiones = d.misiones
           /\ pendientes = d.pendientes
           /\ completadas = d.completadas
           /\ llegada = LlegadaTras([pid \in 1..NumPersonajes |-> << >>], DB0, d)
           /\ orden_dado = OrdenDadoTras([pid \in 1..NumPersonajes |-> 0], DB0, d)
    /\ SinPeticiones

\* requests served concurrently by NumProcs threads
SpecConc == InitConc /\ [][NextConc]_vars

\* Two requests asignar(1, 1) and asignar(1, 2) for the idle character 1 both
\* loaded it before either committed; the first has committed and answered,
\* the second is about to commit. SpecConc reaches these tables and thread
\* records from DB0 with its first two requests; here they are the start, and
\* llamadas counts the requests that arrive from now on.
InitCarrera ==
    LET r1 == AsignarMision(DB0, 1, 1)
    IN /\ personajes = r1.db.personajes
       /\ misiones = r1.db.misiones
       /\ pendientes = r1.db.pendientes
       /\ completadas = r1.db.completadas
       /\ llegada = [pid \in 1..NumPersonajes |-> << >>]
       /\ orden_dado = [pid \in 1..NumPersonajes |-> 0]
       /\ proc = [p \in 1..NumProcs |->
              IF p = 1
              THEN [ProcIdle EXCEPT !.op = "asignar", !.pid = 1, !.mid = 1,
                                    !.pc = "done", !.res = r1.ret]
              ELSE IF p = 2
              THEN [ProcIdle EXCEPT !.op = "asignar", !.pid = 1, !.mid = 2,
                                    !.pc = "a_update"]
              ELSE ProcIdle]
       /\ ret = SinRespuesta
       /\ lock = 0
       /\ base = DB0
       /\ nops = 2
       /\ llamadas = 0
       /\ nombres = [pid \in 1..NumPersonajes |-> Nombres[pid]]
       /\ items = << >>
       /\ encolados = << >>
       /\ sacados = << >>

\* requests served concurrently while an assign that read the idle character
\* is still to commit
SpecCarrera == InitCarrera /\ [][NextConc]_vars

\* ---------------------------------------------------------------- concurrent creates
\* crear_mision, lines 189-196: the query by title finds a row and the handler
\* raises, or finds none and goes on to add the quest to its session
CrearGet(p, titulo, xp) ==
    /\ Recibir(p)
    /\ proc' = [Hilos EXCEPT ![p] =
           IF ExisteTitulo(DB, titulo)
           THEN [ProcIdle EXCEPT
                    !.pc = "done", !.op = "crear", !.titulo = titulo, !.xp = xp,
                    !.res = ErrorCrear(titulo, xp, 400,
                                       "Ya existe una mision con este titulo")]
           ELSE [ProcIdle EXCEPT
                    !.pc = "m_commit", !.op = "crear", !.titulo = titulo, !.xp = xp]]
    /\ UNCHANGED <<fuera, tablas, llegada, orden_dado, ret, lock>>

\* UNIQUE constraint of the column misiones.titulo
TituloUnico(d, titulo) ==
    \A i \in 1..Len(d.misiones) : d.misiones[i].titulo # titulo

\* the commit over a column titulo declared without unique=True
CrearCommitSinUnique(p) ==
    /\ proc[p].pc = "m_commit"
    /\ lock = 0
    /\ misiones' = Append(misiones, NuevaMision(DB, proc[p].titulo, proc[p].xp))
    /\ proc' = [proc EXCEPT ![p].pc = "m_ret",
                            ![p].mid = NuevaMision(DB, proc[p].titulo, proc[p].xp).id]
    /\ UNCHANGED <<fuera, personajes, pendientes, completadas, llegada, orden_dado,
                   ret, lock, base, nops, llamadas>>

\* crear_mision, lines 197-198: db.commit() flushes the INSERT and commits it;
\* a title some committed row has raises IntegrityError, answered with 400
CrearCommit(p) ==
    /\ proc[p].pc = "m_commit"
    /\ lock = 0
    /\ IF TituloUnico(DB, proc[p].titulo)
       THEN /\ misiones' = Append(misiones,
                                  NuevaMision(DB, proc[p].titulo, proc[p].xp))
            /\ proc' = [proc EXCEPT
                   ![p].pc = "m_ret",
                   ![p].mid = NuevaMision(DB, proc[p].titulo, proc[p].xp).id]
       ELSE /\ misiones' = misiones
            /\ proc' = [proc EXCEPT
                   ![p].pc = "done",
                   ![p].res = ErrorCrear(proc[p].titulo, proc[p].xp, 400,
                                         "IntegrityError")]
    /\ UNCHANGED <<fuera, personajes, pendientes, completadas, llegada, orden_dado,
                   ret, lock, base, nops, llamadas>>

\* crear_mision, lines 199-204: db.refresh(mission) reads the row back and the
\* handler returns it
CrearRet(p) ==
    /\ proc[p].pc = "m_ret"
    /\ LET m == GetMision(DB, proc[p].mid)
       IN proc' = [proc EXCEPT ![p].pc = "done",
                               ![p].res = RespCrear(m.id, m.titulo, m.xp)]
    /\ UNCHANGED <<fuera, tablas, llegada, orden_dado, ret, lock, base, nops, llamadas>>

NextCatConc ==
    \E p \in 1..NumProcs :
        \/ \E titulo \in TitulosEntrada, xp \in XpsEntrada : CrearGet(p, titulo, xp)
        \/ CrearCommit(p)
        \/ CrearRet(p)

\* catalogs the concurrent creates start from: empty, or holding one quest
PreparadasCat ==
    LET d0 == [DB0 EXCEPT !.misiones = << >>]
    IN {d0, CrearMision(d0, Titulos[1], XpDe(1)).db}

InitCatConc ==
    /\ \E d \in PreparadasCat :
           /\ personajes = d.personajes
           /\ misiones = d.misiones
           /\ pendientes = d.pendientes
           /\ completadas = d.completadas
    /\ llegada = [pid \in 1..NumPersonajes |-> << >>]
    /\ orden_dado = [pid \in 1..NumPersonajes |-> 0]
    /\ SinPeticiones

\* quests created by overlapping requests
SpecCatConc == InitCatConc /\ [][NextCatConc]_vars
\* ---------------------------------------------------------------- properties
Activa(pid) == personajes[pid].mision_activa_id
Xp(pid) == personajes[pid].xp
Pend(pid) == PendientesDe(DB, pid)
Comp(pid) == CompletadasDe(DB, pid)
Rango(s) == {s[i] : i \in 1..Len(s)}

\* the step serves, sequentially, the request asignar(pid, mid)
LlamaAsignar(pid, mid) ==
    /\ llamadas' = llamadas + 1
    /\ ret'.op = "asignar" /\ ret'.pid = pid /\ ret'.mid = mid

\* the step serves, sequentially, the request completar(pid)
LlamaCompletar(pid) ==
    /\ llamadas' = llamadas + 1
    /\ ret'.op = "completar" /\ ret'.pid = pid

SinCambio(pid) ==
    /\ personajes'[pid] = personajes[pid]
    /\ Pend(pid)' = Pend(pid)
    /\ Cola(DB, pid)' = Cola(DB, pid)
    /\ Comp(pid)' = Comp(pid)

\* C1: after any sequence of assign and complete calls, the active quest of
\* every character is neither in its pending queue nor in its completed set.
C1_ActivaNiPendienteNiCompletada ==
    \A pid \in DOMAIN personajes :
        Activa(pid) # NULL =>
            /\ Activa(pid) \notin Pend(pid)
            /\ Activa(pid) \notin Comp(pid)

\* C2: assign(c, q) of a quest that is c's active quest, or queued for c, or
\* completed by c, fails with status 400 and leaves c's record unchanged.
C2_ReasignacionRechazada ==
    [][\A pid \in DOMAIN personajes : \A mid \in IdsMisiones(DB) :
          (/\ LlamaAsignar(pid, mid)
           /\ \/ Activa(pid) = mid
              \/ mid \in Pend(pid)
              \/ mid \in Comp(pid))
          => (ret'.status = 400 /\ SinCambio(pid))]_vars

\* C3: once a quest is in a character's completed set, no later step makes it
\* that character's active quest or puts it in that character's pending queue.
C3_CompletadaEsTerminal ==
    [][\A pid \in DOMAIN personajes : \A mid \in Comp(pid) :
          /\ Activa(pid)' # mid
          /\ mid \notin Pend(pid)']_vars

\* C4: complete(c) on an existing character with an active quest succeeds:
\* complete fails only for an unknown character or an idle one.
C4_CompletarSiempreTermina ==
    [][\A pid \in PidsEntrada :
          (LlamaCompletar(pid) /\ ret'.status # 200)
          => (pid \notin DOMAIN personajes \/ Activa(pid) = NULL)]_vars

\* C5: in a sequential history, each successful complete promotes the quest
\* that has waited longest in the character's queue (the head of the arrival
\* order), the others keep their order, and an empty queue promotes nothing.
C5_PromocionEnOrdenDeLlegada ==
    [][\A pid \in DOMAIN personajes :
          (LlamaCompletar(pid) /\ ret'.status = 200)
          => /\ Rango(llegada[pid]) = Pend(pid)
             /\ IF llegada[pid] = << >>
                THEN Activa(pid)' = NULL /\ llegada'[pid] = << >>
                ELSE /\ Activa(pid)' = Head(llegada[pid])
                     /\ llegada'[pid] = Tail(llegada[pid])
                     /\ Cola(DB, pid)' = Tail(llegada[pid])]_vars

\* a complete has just promoted the first of at least two queued quests
C5_Testigo ==
    /\ ret.op = "completar" /\ ret.status = 200
    /\ ret.pid \in DOMAIN personajes
    /\ Activa(ret.pid) # NULL
    /\ Len(llegada[ret.pid]) >= 1
    /\ Activa(ret.pid) \notin Rango(llegada[ret.pid])

\* C9: complete(c) with active quest Q and an empty queue leaves c idle, adds Q
\* to the completed set, keeps the queue empty, adds exactly Q's reward to
\* xp_total and returns that gain and the new total.
C9_CompletarConColaVacia ==
    [][\A pid \in DOMAIN personajes :
          (LlamaCompletar(pid) /\ Activa(pid) # NULL /\ Pend(pid) = {})
          => /\ Activa(pid)' = NULL
             /\ Comp(pid)' = Comp(pid) \cup {Activa(pid)}
             /\ Pend(pid)' = {}
             /\ Xp(pid)' = Xp(pid) + GetMision(DB, Activa(pid)).xp
             /\ ret'.status = 200
             /\ ret'.xp_ganada = GetMision(DB, Activa(pid)).xp
             /\ ret'.xp_total = Xp(pid)']_vars

\* C10: complete(c) with active quest Q and queue [R, S, ...] makes R active,
\* leaves the queue [S, ...] in the same order, adds Q to the completed set and
\* adds exactly Q's reward to xp_total.
C10_CompletarConCola ==
    [][\A pid \in DOMAIN personajes :
          (LlamaCompletar(pid) /\ Activa(pid) # NULL /\ Pend(pid) # {})
          => /\ Activa(pid)' = Head(Cola(DB, pid))
             /\ Cola(DB, pid)' = Tail(Cola(DB, pid))
             /\ Comp(pid)' = Comp(pid) \cup {Activa(pid)}
             /\ Xp(pid)' = Xp(pid) + GetMision(DB, Activa(pid)).xp]_vars

\* ---------------------------------------------------------------- concurrency properties
\* the outcomes of the request of thread record pr served alone on tables d
Resultados(d, pr) ==
    IF pr.op = "asignar"
    THEN {AsignarMision(d, pr.pid, pr.mid)}
    ELSE {CompletarMision(d, pr.pid, sig) : sig \in Siguientes(d, pr.pid)}

\* tables e with responses r1, r2 are what serving pr1 and then pr2, one at a
\* time, yields from tables d
EnSerie(d, pr1, pr2, e) ==
    \E o1 \in Resultados(d, pr1) :
        /\ o1.ret = pr1.res
        /\ \E o2 \in Resultados(o1.db, pr2) :
               /\ o2.ret = pr2.res
               /\ o2.db = e

\* C6: whatever the interleaving of concurrent assign calls on a character
\* with an active quest, no two queued quests of a character have the same
\* sequence number and complete dequeues them in the order of their insertion.
C6_SinEmpatesYFifo ==
    [][\A pid \in DOMAIN personajes :
          /\ \A r, s \in FilasPendientes(DB, pid)' :
                 r # s => r.orden # s.orden
          /\ ~(Pend(pid) \subseteq Pend(pid)') =>
                 Activa(pid)' = Head(llegada[pid])]_vars

\* C7: two calls among assign and complete that run concurrently on the same
\* character leave the tables, and return the responses, of one of the two
\* orders in which they can be served one after the other.
C7_Linealizable ==
    \A p, q \in DOMAIN proc :
        (/\ p # q
         /\ nops = 2
         /\ proc[p].pc = "done" /\ proc[q].pc = "done"
         /\ proc[p].pid = proc[q].pid
         /\ proc[p].pid \in DOMAIN personajes
         /\ \A o \in DOMAIN proc \ {p, q} : proc[o].pc = "idle")
        => \/ EnSerie(base, proc[p], proc[q], DB)
           \/ EnSerie(base, proc[q], proc[p], DB)

\* C8: the committed tables, which are all that another request can read,
\* never show a part of a complete: every step that credits xp, adds a
\* completed quest or removes a queued quest of a character is the commit of
\* one complete call, which at once records its finished quest as completed,
\* stores the xp it computed, installs the quest it promotes (or none) as the
\* active quest and has that quest out of the queue.
C8_CompletarAtomico ==
    [][\A pid \in DOMAIN personajes :
          (\/ Xp(pid)' # Xp(pid)
           \/ Comp(pid)' # Comp(pid)
           \/ ~(Pend(pid) \subseteq Pend(pid)'))
          => \E p \in DOMAIN proc :
                /\ proc[p].pc = "c_commit" /\ proc'[p].pc = "c_ret"
                /\ proc[p].pid = pid
                /\ Comp(pid)' = Comp(pid) \cup {proc[p].activa}
                /\ Xp(pid)' = proc[p].xp + proc[p].xp_ganada
                /\ IF proc[p].sig = NoRow
                   THEN Activa(pid)' = NULL /\ Pend(pid)' = Pend(pid)
                   ELSE /\ Activa(pid)' = proc[p].sig.mision_id
                        /\ Pend(pid)' = Pend(pid) \ {proc[p].sig.mision_id}]_vars

\* a complete that promotes a queued quest has written its INSERT but not yet
\* committed, while another request on the same character is under way
C8_Testigo ==
    \E p, q \in DOMAIN proc :
        /\ p # q
        /\ proc[p].pc = "c_delete"
        /\ ~Libre(q)
        /\ proc[q].pid = proc[p].pid


\* C11: complete on an existing character with no active quest fails with
\* "no active quest" and leaves the xp, active quest, pending queue and
\* completed set of every character unchanged; so does a second complete
\* right after the one that left the character idle.
C11_CompletarSinActivaFalla ==
    [][\A pid \in DOMAIN personajes :
          LlamaCompletar(pid) /\ Activa(pid) = NULL =>
              /\ ret'.status # 200
              /\ ret'.detail = "El personaje no tiene mision activa"
              /\ tablas' = tablas
              /\ llegada' = llegada]_vars

\* a complete has just failed on a character that an earlier complete left idle
C11_Testigo ==
    /\ ret.op = "completar"
    /\ ret.detail = "El personaje no tiene mision activa"
    /\ ret.pid \in DOMAIN personajes
    /\ Comp(ret.pid) # {}
    /\ Xp(ret.pid) > 0

\* C12: assign of a catalog quest that is not already queued succeeds; on an
\* idle character it sets the active quest to q and leaves the pending queues,
\* completed sets and xp unchanged; on a character with an active quest it
\* appends q at the tail of that character's pending queue and leaves the
\* active quests, the entries already queued and their order, the completed
\* sets and the xp unchanged.
C12_EfectoDeAsignar ==
    [][\A pid \in DOMAIN personajes : \A mid \in IdsMisiones(DB) :
          LlamaAsignar(pid, mid) /\ mid \notin Pend(pid) =>
              /\ ret'.status = 200
              /\ completadas' = completadas
              /\ IF Activa(pid) = NULL
                 THEN /\ personajes' =
                             [personajes EXCEPT ![pid].mision_activa_id = mid]
                      /\ pendientes' = pendientes
                      /\ llegada' = llegada
                 ELSE /\ personajes' = personajes
                      /\ pendientes \subseteq pendientes'
                      /\ Cola(DB, pid)' = Append(Cola(DB, pid), mid)
                      /\ llegada' = [llegada EXCEPT ![pid] = Append(@, mid)]
                      /\ \A o \in DOMAIN personajes \ {pid} :
                             Cola(DB, o)' = Cola(DB, o)]_vars

\* a quest has just been appended behind another one in the queue of a
\* character that has earned xp
C12_Testigo ==
    /\ ret.op = "asignar" /\ ret.status = 200
    /\ ret.pid \in DOMAIN personajes
    /\ Len(Cola(DB, ret.pid)) >= 2
    /\ Cola(DB, ret.pid)[Len(Cola(DB, ret.pid))] = ret.mid
    /\ Activa(ret.pid) # ret.mid
    /\ Xp(ret.pid) > 0

\* C13: the result of every successful assign reports what the call did:
\* mision_activa is true (and en_cola false) exactly when the call set the
\* active quest to q, and mision_activa is false (and en_cola true) exactly
\* when the call appended q to the queue.
C13_ResultadoDiceLoHecho ==
    [][\A pid \in DOMAIN personajes : \A mid \in IdsMisiones(DB) :
          LlamaAsignar(pid, mid) /\ ret'.status = 200 =>
              /\ ret'.mision_activa <=> (Activa(pid) = NULL /\ Activa(pid)' = mid)
              /\ ret'.en_cola <=> (pendientes' # pendientes /\ mid \in Pend(pid)')
              /\ ret'.en_cola <=> ~ret'.mision_activa]_vars

\* the rows an INSERT of this step added to the pending table of pid
FilasNuevas(pid) == FilasPendientes(DB, pid)' \ FilasPendientes(DB, pid)

\* C14: over any sequence of assign and complete calls, the sequence number
\* given to a newly queued quest of a character is strictly greater than every
\* sequence number given to that character before, the dequeued ones
\* included: a sequence number is never reused.
C14_OrdenNuncaReusado ==
    [][\A pid \in DOMAIN personajes : \A r \in FilasNuevas(pid) :
          r.orden > orden_dado[pid]]_vars

\* C14 (amended): over any sequence of assign and complete calls, the
\* sequence number given to a newly queued quest of a character is strictly
\* greater than the sequence number of every quest then in that character's
\* queue.
C14_OrdenMayorQueLosEnCola ==
    [][\A pid \in DOMAIN personajes : \A r \in FilasNuevas(pid) :
          \A s \in FilasPendientes(DB, pid) : r.orden > s.orden]_vars

\* a quest has just been queued behind another one after a quest was
\* dequeued
C14_Testigo ==
    /\ ret.op = "asignar" /\ ret.status = 200
    /\ ret.pid \in DOMAIN personajes
    /\ Comp(ret.pid) # {}
    /\ Activa(ret.pid) \notin Comp(ret.pid)
    /\ \E r, s \in FilasPendientes(DB, ret.pid) :
          /\ r.mision_id = ret.mid
          /\ r.orden = orden_dado[ret.pid]
          /\ s.orden < r.orden

\* C16: in every reachable state the pending queue and the completed set of
\* every character are disjoint.
C16_PendientesYCompletadasDisjuntas ==
    \A pid \in DOMAIN personajes : Pend(pid) \cap Comp(pid) = {}

\* no two rows of the pending table name the same character and quest
SinDuplicados(P) ==
    \A r, s \in P :
        r.personaje_id = s.personaje_id /\ r.mision_id = s.mision_id => r = s

\* C15: no character's pending queue ever contains the same quest twice, and
\* an assign that would add a second entry for a quest already queued does
\* not change the queue, whether requests are served one at a time or
\* interleaved.
C15_SinDuplicadosEnCola ==
    /\ SinDuplicados(pendientes)
    /\ [][/\ SinDuplicados(pendientes')
          /\ \A pid \in DOMAIN personajes : \A mid \in Pend(pid) :
                LlamaAsignar(pid, mid) =>
                    ret'.status # 200 /\ tablas' = tablas /\ llegada' = llegada
          /\ \A p \in DOMAIN proc :
                /\ proc[p].pc = "a_insert"
                /\ proc'[p] # proc[p]
                /\ EnPendientes(DB, proc[p].pid, proc[p].mid)
                => /\ proc'[p].pc = "done"
                   /\ proc'[p].res.status # 200
                   /\ tablas' = tablas /\ llegada' = llegada]_vars

\* two interleaved requests queued the same quest for the same character: one
\* was committed and the other was refused
C15_Testigo ==
    \E p, q \in DOMAIN proc :
        /\ p # q
        /\ proc[p].pc = "done" /\ proc[q].pc = "done"
        /\ proc[p].op = "asignar" /\ proc[q].op = "asignar"
        /\ proc[p].pid = proc[q].pid /\ proc[p].mid = proc[q].mid
        /\ proc[p].res.status = 200 /\ proc[p].res.en_cola
        /\ proc[q].res.status # 200
        /\ Cardinality({r \in pendientes : r.personaje_id = proc[p].pid /\
                                           r.mision_id = proc[p].mid}) = 1

TitulosDe(M) == {M[i].titulo : i \in 1..Len(M)}

\* the step serves, sequentially, the request crear(titulo, xp)
LlamaCrear(titulo, xp) ==
    /\ llamadas' = llamadas + 1
    /\ ret'.op = "crear" /\ ret'.titulo = titulo /\ ret'.xp = xp

\* C17: creating a quest whose title an existing quest has fails, whatever
\* the reward asked for, and leaves the catalog unchanged.
C17_TituloRepetidoRechazado ==
    [][\A titulo \in TitulosDe(misiones) : \A xp \in XpsEntrada :
          LlamaCrear(titulo, xp) =>
              /\ ret'.status # 200
              /\ misiones' = misiones
              /\ tablas' = tablas]_vars

\* a create was just refused for the title of a quest that has another reward
C17_Testigo ==
    /\ ret.op = "crear" /\ ret.status = 400
    /\ Len(misiones) >= 2
    /\ \E i \in 1..Len(misiones) :
          misiones[i].titulo = ret.titulo /\ misiones[i].xp # ret.xp

\* the create served by thread p has inserted its quest
CrearLogrado(p) ==
    /\ proc[p].op = "crear"
    /\ \/ proc[p].pc = "m_ret"
       \/ proc[p].pc = "done" /\ proc[p].res.status = 200

\* C18: in every interleaving of the steps (query, insert, commit) of
\* concurrent creates with the same title, at most one of them succeeds, the
\* catalog never holds two quests with the same title, and the one that
\* loses reports a failure.
C18_UnSoloCrearGana ==
    /\ \A i, j \in 1..Len(misiones) :
          misiones[i].titulo = misiones[j].titulo => i = j
    /\ \A p, q \in DOMAIN proc :
          /\ p # q
          /\ proc[p].op = "crear" /\ proc[q].op = "crear"
          /\ proc[p].titulo = proc[q].titulo
          => /\ ~(CrearLogrado(p) /\ CrearLogrado(q))
             /\ proc[p].pc = "done" /\ proc[q].pc = "done" =>
                   \/ proc[p].res.status = 400
                   \/ proc[q].res.status = 400

\* two creates of one title both found it free; one inserted the quest and
\* the other was stopped by the UNIQUE constraint
C18_Testigo ==
    \E p, q \in DOMAIN proc :
        /\ p # q
        /\ proc[p].pc = "done" /\ proc[q].pc = "done"
        /\ proc[p].op = "crear" /\ proc[q].op = "crear"
        /\ proc[p].titulo = proc[q].titulo
        /\ proc[p].res.status = 200
        /\ proc[q].res.status = 400 /\ proc[q].res.detail = "IntegrityError"
        /\ Cardinality({i \in 1..Len(misiones) :
                           misiones[i].titulo = proc[p].titulo}) = 1

\* the step serves, sequentially, the request list_available(pid)
LlamaListar(pid) ==
    /\ llamadas' = llamadas + 1
    /\ ret'.op = "disponibles" /\ ret'.pid = pid

\* C19: list_available on an existing character returns exactly the quests of
\* the catalog that are not its active quest, not in its pending queue and
\* not in its completed set, each once, and changes no state.
C19_DisponiblesExactas ==
    [][\A pid \in DOMAIN personajes :
          LlamaListar(pid) =>
              /\ ret'.status = 200
              /\ Rango(ret'.lista) =
                     {misiones[i] : i \in
                         {j \in 1..Len(misiones) :
                             /\ misiones[j].id # Activa(pid)
                             /\ misiones[j].id \notin Pend(pid)
                             /\ misiones[j].id \notin Comp(pid)}}
              /\ Cardinality(Rango(ret'.lista)) = Len(ret'.lista)
              /\ tablas' = tablas
              /\ llegada' = llegada]_vars

\* the catalog holds quests 1, 2 and 3, the character's active quest is 1,
\* its queue is <<2>>, it completed none, and the list just returned is
\* quest 3 alone
C19_Testigo ==
    /\ ret.op = "disponibles" /\ ret.status = 200
    /\ ret.pid \in DOMAIN personajes
    /\ Activa(ret.pid) = 1
    /\ Cola(DB, ret.pid) = <<2>>
    /\ Comp(ret.pid) = {}
    /\ ret.lista = <<GetMision(DB, 3)>>

\* C20: assign for a character that does not exist fails with "character not
\* found", assign for an existing character and a quest that is not in the
\* catalog fails with "quest not found"; both are answered with status 404,
\* unlike the other assignment errors (400), and change no record.
C20_AsignarDesconocidos404 ==
    [][\A pid \in PidsEntrada : \A mid \in MidsEntrada :
          LlamaAsignar(pid, mid) =>
              /\ pid \notin DOMAIN personajes =>
                    /\ ret'.status = 404
                    /\ ret'.detail = "Personaje no encontrado"
                    /\ tablas' = tablas
              /\ pid \in DOMAIN personajes /\ mid \notin IdsMisiones(DB) =>
                    /\ ret'.status = 404
                    /\ ret'.detail = "Mision no encontrada"
                    /\ tablas' = tablas]_vars

\* C21: the failures of complete and list_available are told apart by their
\* status: complete answers 404 for a character that does not exist, 400 for
\* a character with no active quest and 500 for internal errors only;
\* list_available answers 404 for a character that does not exist.
C21_EstadosDeError ==
    [][\A pid \in PidsEntrada :
          /\ LlamaCompletar(pid) =>
                /\ pid \notin DOMAIN personajes => ret'.status = 404
                /\ pid \in DOMAIN personajes /\ Activa(pid) = NULL =>
                      ret'.status = 400
                /\ ret'.status = 500 =>
                      pid \in DOMAIN personajes /\ Activa(pid) # NULL
          /\ LlamaListar(pid) /\ pid \notin DOMAIN personajes =>
                ret'.status = 404]_vars

\* C22: the xp of every character is 0 when it is registered, is never
\* negative and never decreases, whatever calls are made, failing and
\* concurrent ones on the same character included; it changes only when a
\* complete succeeds, and then grows by exactly the reward of the quest that
\* was active.
C22_XpSoloCreceAlCompletar ==
    /\ \A pid \in DOMAIN personajes : Xp(pid) >= 0
    /\ [][/\ \A pid \in DOMAIN personajes' \ DOMAIN personajes :
                personajes'[pid].xp = 0
          /\ \A pid \in DOMAIN personajes :
                /\ Xp(pid)' >= Xp(pid)
                /\ Xp(pid)' # Xp(pid) =>
                      \/ /\ ret'.op = "completar" /\ ret'.pid = pid
                         /\ ret'.status = 200 /\ llamadas' = llamadas + 1
                         /\ Xp(pid)' = Xp(pid) + GetMision(DB, Activa(pid)).xp
                         /\ Activa(pid) \in Comp(pid)' \ Comp(pid)
                      \/ \E p \in DOMAIN proc :
                            /\ proc[p].pc = "c_commit" /\ proc'[p].pc = "c_ret"
                            /\ proc[p].pid = pid
                            /\ Xp(pid)' = Xp(pid) + GetMision(DB, proc[p].activa).xp
                            /\ proc[p].activa \in Comp(pid)' \ Comp(pid)]_vars

\* the state SpecCarrera starts from, whatever the number of requests counted
EnCarrera ==
    LET r1 == AsignarMision(DB0, 1, 1)
    IN /\ DB = r1.db
       /\ proc[1].pc = "done" /\ proc[1].res = r1.ret
       /\ proc[2] = [ProcIdle EXCEPT !.op = "asignar", !.pid = 1, !.mid = 2,
                                     !.pc = "a_update"]
       /\ lock = 0 /\ base = DB0 /\ nops = 2

\* the record of character c: its row and its rows in the two association tables
Registro(d, c) ==
    <<d.personajes[c], FilasPendientes(d, c),
      {x \in d.completadas : x.personaje_id = c}>>

\* thread p is at the step that commits a call on character c
Confirma(p, c) ==
    /\ proc[p].pid = c
    /\ proc[p].pc \in {"a_commit", "a_update", "c_commit"}
    /\ proc'[p].pc # proc[p].pc

\* C23: an assign or complete call on character c changes at most the record
\* of c: the xp, active quest, pending queue and completed set of every other
\* character and the quests of the catalog are unchanged; two calls on
\* different characters, however their steps interleave, leave the tables and
\* get the responses of either order of serving them one after the other.
C23_SoloElPersonajeLlamado ==
    /\ [](\A p, q \in DOMAIN proc :
             (/\ p # q
              /\ nops = 2
              /\ proc[p].pc = "done" /\ proc[q].pc = "done"
              /\ proc[p].pid # proc[q].pid
              /\ \A o \in DOMAIN proc \ {p, q} : proc[o].pc = "idle")
             => /\ EnSerie(base, proc[p], proc[q], DB)
                /\ EnSerie(base, proc[q], proc[p], DB))
    /\ [][/\ misiones' = misiones
          /\ \A c \in DOMAIN personajes :
                Registro(DB, c)' # Registro(DB, c) =>
                    \/ \E p \in DOMAIN proc : Confirma(p, c)
                    \/ LlamaCompletar(c)
                    \/ \E mid \in MidsEntrada : LlamaAsignar(c, mid)]_vars

\* a complete on one character and an assign on another one overlapped and
\* both succeeded
C23_Testigo ==
    \E p, q \in DOMAIN proc :
        /\ nops = 2
        /\ proc[p].pc = "done" /\ proc[q].pc = "done"
        /\ proc[p].pid # proc[q].pid
        /\ proc[p].op = "completar" /\ proc[q].op = "asignar"
        /\ proc[p].res.status = 200 /\ proc[q].res.status = 200
        /\ Registro(DB, proc[p].pid) # Registro(base, proc[p].pid)
        /\ Registro(DB, proc[q].pid) # Registro(base, proc[q].pid)

\* quests 1 ("Tutorial", 10) and 2 ("Dragon", 100) are in the catalog
CatalogoDeReferencia ==
    /\ {1, 2} \subseteq IdsMisiones(DB)
    /\ GetMision(DB, 1) = [id |-> 1, titulo |-> "Tutorial", xp |-> 10]
    /\ GetMision(DB, 2) = [id |-> 2, titulo |-> "Dragon", xp |-> 100]

\* the record of character 1
Escena(xp, activa, cola, completas) ==
    /\ personajes[1] = [xp |-> xp, mision_activa_id |-> activa]
    /\ Cola(DB, 1) = cola
    /\ Pend(1) = Rango(cola)
    /\ Comp(1) = completas

\* C24: with quests ("Tutorial", 10) id 1 and ("Dragon", 100) id 2 and a fresh
\* character 1, the calls assign(1,1), assign(1,2), complete(1), complete(1)
\* answer activated, queued, {xp_gained 10, xp_total 10} and {xp_gained 100,
\* xp_total 110}; after the first complete quest 2 is active and the backlog
\* is empty, after the second the character is idle and has completed 1 and 2.
C24_EscenarioDeReferencia ==
    [][CatalogoDeReferencia =>
          /\ Escena(0, NULL, << >>, {}) /\ LlamaAsignar(1, 1) =>
                /\ ret'.status = 200
                /\ ret'.mision_activa /\ ~ret'.en_cola
                /\ Escena(0, 1, << >>, {})'
          /\ Escena(0, 1, << >>, {}) /\ LlamaAsignar(1, 2) =>
                /\ ret'.status = 200
                /\ ~ret'.mision_activa /\ ret'.en_cola
                /\ Escena(0, 1, <<2>>, {})'
          /\ Escena(0, 1, <<2>>, {}) /\ LlamaCompletar(1) =>
                /\ ret'.status = 200
                /\ ret'.xp_ganada = 10 /\ ret'.xp_total = 10
                /\ Escena(10, 2, << >>, {1})'
          /\ Escena(10, 2, << >>, {1}) /\ LlamaCompletar(1) =>
                /\ ret'.status = 200
                /\ ret'.xp_ganada = 100 /\ ret'.xp_total = 110
                /\ Escena(110, NULL, << >>, {1, 2})']_vars

\* the four calls of the scenario have been served and nothing else
C24_Testigo ==
    /\ llamadas = 4
    /\ CatalogoDeReferencia
    /\ Escena(110, NULL, << >>, {1, 2})
    /\ ret.op = "completar" /\ ret.pid = 1 /\ ret.status = 200
    /\ ret.xp_ganada = 100 /\ ret.xp_total = 110
    /\ orden_dado[1] = 1
    /\ \A c \in DOMAIN personajes \ {1} :
          personajes[c] = [xp |-> 0, mision_activa_id |-> NULL]

\* the step is a call of method op of the ColaMisiones object
LlamaCola(op) == llamadas' = llamadas + 1 /\ ret'.op = op

\* C25: ColaMisiones is a FIFO queue: the values other than None returned by
\* dequeue are the enqueued ids in the order of their enqueue; dequeue and
\* first on an empty queue return None and leave it unchanged; first returns
\* what the next dequeue would return and removes nothing; size is the number
\* of enqueues minus the number of dequeues that did not return None.
C25_ColaFifo ==
    /\ encolados = sacados \o items
    /\ [][/\ encolados' = sacados' \o items'
          /\ LlamaCola("dequeue") =>
                IF items = << >>
                THEN ret'.valor = None /\ items' = items /\ sacados' = sacados
                ELSE /\ ret'.valor = Valor(encolados[Len(sacados) + 1])
                     /\ sacados' = Append(sacados, encolados[Len(sacados) + 1])
                     /\ Len(items') = Len(items) - 1
          /\ LlamaCola("first") =>
                /\ items' = items
                /\ ret'.valor = dequeue(items).valor
                /\ items = << >> => ret'.valor = None
          /\ LlamaCola("size") =>
                /\ items' = items
                /\ ret'.valor = Valor(Len(encolados) - Len(sacados))
          /\ LlamaCola("is_empty") =>
                /\ items' = items
                /\ ret'.valor = Valor(Len(encolados) = Len(sacados))]_vars

\* after three enqueues, a dequeue has returned the id enqueued first while
\* two other ids wait
C25_Testigo ==
    /\ ret.op = "dequeue"
    /\ Len(encolados) = 3
    /\ sacados = <<encolados[1]>>
    /\ ret.valor = Valor(encolados[1])
    /\ encolados[1] # encolados[3]
    /\ Len(items) = 2

\* the sum of the rewards of the quests of S
RECURSIVE SumaXp(_, _)
SumaXp(d, S) ==
    IF S = {} THEN 0
    ELSE LET m == CHOOSE x \in S : TRUE
         IN GetMision(d, m).xp + SumaXp(d, S \ {m})

\* C26: in every state reachable by any sequence and any interleaving of
\* assign and complete calls, the xp of each character is the sum of the
\* rewards of the quests of its completed set: no reward is credited without
\* its quest being recorded, and none twice.
C26_XpEsSumaDeCompletadas ==
    \A pid \in DOMAIN personajes : Xp(pid) = SumaXp(DB, Comp(pid))

\* C27: a character is never idle while it has a backlog: in every reachable
\* state, also after an assign and a complete that overlap on the same
\* character, a character without active quest has an empty pending queue.
C27_NuncaOciosoConCola ==
    \A pid \in DOMAIN personajes : Activa(pid) = NULL => Pend(pid) = {}

\* C28: no accepted quest is lost: after two assign calls that overlapped on
\* the same character and both answered 200, each of the two quests is the
\* active quest of the character, or in its queue, or in its completed set.
C28_NingunaAceptadaSePierde ==
    \A p, q \in DOMAIN proc :
        (/\ p # q
         /\ nops = 2
         /\ proc[p].pc = "done" /\ proc[q].pc = "done"
         /\ proc[p].res.op = "asignar" /\ proc[q].res.op = "asignar"
         /\ proc[p].res.status = 200 /\ proc[q].res.status = 200
         /\ proc[p].pid = proc[q].pid)
        => LET pid == proc[p].pid
           IN proc[p].mid \in {Activa(pid)} \cup Pend(pid) \cup Comp(pid)

\* C29: two complete calls that overlap on a character and both read the
\* active quest Q credit the reward of Q once, record Q once, and take at
\* most one quest out of the queue: one call answers 200, and the tables are
\* those a single complete leaves.
C29_DosCompletarCuentanUno ==
    \A p, q \in DOMAIN proc :
        (/\ p # q
         /\ nops = 2
         /\ proc[p].pc = "done" /\ proc[q].pc = "done"
         /\ proc[p].op = "completar" /\ proc[q].op = "completar"
         /\ proc[p].pid = proc[q].pid
         /\ proc[p].pid \in DOMAIN personajes
         /\ proc[p].activa # NULL
         /\ proc[p].activa = proc[q].activa
         /\ proc[p].activa = base.personajes[proc[p].pid].mision_activa_id)
        => LET pid == proc[p].pid
               Q == proc[p].activa
           IN /\ Xp(pid) = base.personajes[pid].xp + GetMision(DB, Q).xp
              /\ Q \in Comp(pid)
              /\ Comp(pid) = CompletadasDe(base, pid) \cup {Q}
              /\ Cardinality(PendientesDe(base, pid) \ Pend(pid)) <= 1
              /\ Activa(pid) \in Pend(pid) \cup PendientesDe(base, pid) \cup {NULL}
              /\ PendientesDe(base, pid) \subseteq Pend(pid) \cup {Activa(pid)}
              /\ \E sig \in Siguientes(base, pid) : DB = CompletarMision(base, pid, sig).db
              /\ (proc[p].res.status = 200) <=> (proc[q].res.status # 200)

\* both calls read active quest 1 with quest 2 queued; one answered 200 and
\* promoted quest 2, the other failed on the primary key of the completed table
C29_Testigo ==
    /\ nops = 2
    /\ \E p, q \in DOMAIN proc :
          /\ p # q
          /\ proc[p].pc = "done" /\ proc[q].pc = "done"
          /\ proc[p].op = "completar" /\ proc[q].op = "completar"
          /\ proc[p].pid = 1 /\ proc[q].pid = 1
          /\ proc[p].activa = 1 /\ proc[q].activa = 1
          /\ proc[p].res.status = 200
          /\ proc[q].res.status = 500
    /\ Activa(1) = 2 /\ Pend(1) = {} /\ Comp(1) = {1} /\ Xp(1) = XpDe(1)

\* the ids of the quests of a list of a response
Ids(s) == {s[i].id : i \in DOMAIN s}

\* the step serves, sequentially, the request for the quests of character pid
LlamaVista(pid) ==
    /\ llamadas' = llamadas + 1
    /\ ret'.op = "misiones" /\ ret'.pid = pid

\* C30: for every existing character, the misiones_disponibles returned by
\* listar_misiones_personaje are the quests listar_misiones_disponibles
\* returns, and mision_activa, misiones_pendientes (in the order of arrival),
\* misiones_completadas and misiones_disponibles partition the catalog: every
\* quest of the catalog is in exactly one of them, once.
C30_ListadosParticionan ==
    [][\A pid \in DOMAIN personajes :
          LlamaVista(pid) =>
              LET A == Ids(ret'.valor)
                  P == Ids(ret'.misiones_pendientes)
                  C == Ids(ret'.misiones_completadas)
                  D == Ids(ret'.lista)
              IN /\ ret'.status = 200
                 /\ ret'.lista = ListarMisionesDisponibles(DB, pid).ret.lista
                 /\ [i \in DOMAIN ret'.misiones_pendientes |->
                        ret'.misiones_pendientes[i].id] = llegada[pid]
                 /\ A \cup P \cup C \cup D = IdsMisiones(DB)
                 /\ A \cap P = {} /\ A \cap C = {} /\ A \cap D = {}
                 /\ P \cap C = {} /\ P \cap D = {} /\ C \cap D = {}
                 /\ Cardinality(P) = Len(ret'.misiones_pendientes)
                 /\ Cardinality(C) = Len(ret'.misiones_completadas)
                 /\ Cardinality(D) = Len(ret'.lista)
                 /\ tablas' = tablas]_vars
====
